---- MODULE Spec2Model ----
(***************************************************************************)
(* Job orchestration core of the blog-writer agents:                        *)
(*   - InMemorySessionService (src/src/session/in_memory_session.py): a    *)
(*     dict of dicts guarded by one threading.Lock;                        *)
(*   - SupervisorAgent (src/src/agents/supervisor_agent.py): start_job,    *)
(*     the batch / fallback section pipeline, pause_job and resume_job.    *)
(*                                                                         *)
(* Python dicts are objects: the store maps a session id to a reference,   *)
(* and get_session hands that reference out.  The model therefore keeps a  *)
(* heap of dict objects (heap) and a map from ids to heap addresses        *)
(* (store); a returned session is an address, not a value.                 *)
(***************************************************************************)
EXTENDS Integers, Sequences, FiniteSets, TLC

\* ---------------------------------------------------------------- bounds
MaxOutline == 2      \* longest outline the outline collaborator returns
MaxCalls == 3        \* calls the client threads make in one run
MaxText == 5         \* longest text, in tokens, given to the extractor
MaxRaw == 4          \* longest output, in tokens, of a batch step's llm call

\* ------------------------------------------------------------- universe
Runner == "runner"                 \* the thread executing start_job
Clients == {"c1", "c2"}            \* threads calling the public surface
Threads == Clients \cup {Runner}
NoThread == "none"

JobId == "j1"                      \* the uuid4 drawn by start_job
OtherIds == {"u1", "u2"}           \* ids no start_job ever draws
SessionIds == {JobId} \cup OtherIds

Topic == "topic"
Headings == {"h1", "h2"}
None == 0                          \* Python None as a session reference

\* the field a client thread sets in a direct update_session call
ClientField(t) == IF t = "c1" THEN "a" ELSE "b"

StageFields == {"research", "outline", "sections", "content", "seo", "result"}

\* ------------------------------------------------------------ variables
VARIABLES
    store,      \* InMemorySessionService._store: session id -> heap address
    heap,       \* heap address -> dict (field name -> value)
    lock,       \* InMemorySessionService._lock: holder, or NoThread
    pc,         \* position of each thread
    arg,        \* arguments of the call a thread is in: [id, data]
    cont,       \* where a thread continues when update_session returns
    ret,        \* session reference a thread last received (sess / return)
    err,        \* exception a thread's last call raised, or "none"
    calls,      \* number of calls the clients have made
    job,        \* locals of start_job
    futures,    \* futures list of generate_sections_fallback
    idx,        \* index of the collection loop over futures
    \* history variables (not program state)
    created,    \* ids passed to create_session so far
    shadow,     \* id -> dict obtained by applying the calls one at a time
    snap,       \* value of the dict a get_session call returned, at the call
    op,         \* name of the call a client is in or last made
    tag,        \* sequential scenario a client is in, see Scenario tags
    order,      \* indices of the fallback tasks in completion order
    \* a call of _extract_json_array_from_text
    ext,        \* [text, pc, out]: its argument, its position, its outcome
    \* a caller of create_session
    own,        \* heap address of the dict a client passed to create_session
    \* a call of _generate_all_sections_from_outline or _edit_all_sections
    bs          \* [kind, pc, calls, raw, outs, err, out], see Batch steps

vars == <<store, heap, lock, pc, arg, cont, ret, err, calls, job, futures,
          idx, created, shadow, snap, op, tag, order, ext, own, bs>>

\* ------------------------------------------------------------- helpers
EmptyDict == [f \in {} |-> 0]

\* the record is replaced by d instead of being merged with it
DictAssign(r, d) == d

\* dict.update(d): fields of d are written over r, the others are kept
DictUpdate(r, d) ==
    [f \in DOMAIN r \cup DOMAIN d |-> IF f \in DOMAIN d THEN d[f] ELSE r[f]]

\* self._store[k] = v
Put(m, k, v) == [x \in DOMAIN m \cup {k} |-> IF x = k THEN v ELSE m[x]]

\* a fresh dict object
NewAddr == Cardinality(DOMAIN heap) + 1

\* self._store.get(session_id)
StoreGet(id) == IF id \in DOMAIN store THEN store[id] ELSE None

\* the record currently stored under id
Rec(id) == heap[store[id]]

\* sess.get("status") on a dict
GetStatus(d) == IF "status" \in DOMAIN d THEN d["status"] ELSE "absent"

StatusOf(id) == IF id \in DOMAIN store THEN GetStatus(Rec(id)) ELSE "absent"

\* the store without its lock
LockIgnored == TRUE

\* `with self._lock:` can be entered
LockFree == lock = NoThread

\* `not sess`: None and the empty dict are both falsy
Falsy(a) == a = None \/ DOMAIN heap[a] = {}

\* the early return taken for running jobs only
OnlyRunning(a) == GetStatus(heap[a]) = "running"

\* sess.get("status") != "paused"
NotPaused(a) == GetStatus(heap[a]) # "paused"

PauseData == [status |-> "paused"]
\* resume_job writing the status it found
ResumeKeepsPaused == [status |-> "paused"]
ResumeData == [status |-> "running"]
InitialFields == [status |-> "running", topic |-> Topic]

\* the outlines the outline collaborator can return
OutlineEntry(h) == [heading |-> h, bullets |-> <<>>]
Outlines ==
    UNION {[1..n -> {OutlineEntry(h) : h \in Headings}] : n \in 0..MaxOutline}

\* ResearchAgent.run: an aggregate with the citations that could be fetched
ResearchResults == {[citations |-> <<>>], [citations |-> <<"url">>]}

\* DraftAgent.expand and EditorAgent.run, as what they do to a text
Draft(h) == [text |-> "draft", of |-> h, edited |-> FALSE]
Edit(c) == [c EXCEPT !.edited = TRUE]

\* SupervisorAgent._draft_and_edit
DraftAndEdit(h) == [heading |-> h, content |-> Edit(Draft(h))]

\* start_job step 4: "## heading\n\ncontent" per section, joined
Assemble(secs) ==
    [i \in 1..Len(secs) |-> <<"## ", secs[i].heading, secs[i].content>>]

\* SEOAgent.run
Seo(topic, content) == [meta_title |-> topic, has_content |-> content # <<>>]

\* collection in completion order, as concurrent.futures.as_completed gives
CollectAsCompleted(k, done) == IF k <= Len(done) THEN done[k] ELSE k

\* the k-th future the collection loop waits for: `for f in futures`
CollectIndex(k, done) == k

NoSection == [heading |-> "", content |-> Draft("")]
PendingFuture == [state |-> "pending", value |-> NoSection]

\* ------------------------------------------------------- scenario tags
\* tag[t] follows a client through a sequence of its own calls on one id
\* during which no other thread writes that id's record:
\*   "pause"        pause_job called on a running job
\*   "pause_resume" resume_job called next, on the same id
\*   "resume_np"    resume_job called on an existing job that is not paused
\* A write to the id by another thread, or another call, ends the scenario.
Disturb(s, id) ==
    [t \in Clients |->
        IF t # s /\ tag[t] # "none" /\ arg[t].id = id THEN "none" ELSE tag[t]]

NoArg == [id |-> "u1", data |-> EmptyDict]

\* no call of _extract_json_array_from_text is being followed
NoCall == [text |-> [isStr |-> TRUE, toks |-> <<>>], pc |-> "off",
           out |-> [kind |-> "none", value |-> <<>>]]

\* no call of a batch step is being followed
NoStep == [kind |-> "none", pc |-> "off", calls |-> 0,
           raw |-> [isStr |-> TRUE, toks |-> <<>>], outs |-> <<>>,
           err |-> "none", out |-> <<>>]

\* ----------------------------------------------------------------- Init
\* a freshly constructed SupervisorAgent, no job started
InitAgent ==
    /\ store = [x \in {} |-> 0]
    /\ heap = [x \in {} |-> 0]
    /\ lock = NoThread
    /\ pc = [t \in Threads |-> "idle"]
    /\ arg = [t \in Threads |-> NoArg]
    /\ cont = [t \in Threads |-> "idle"]
    /\ ret = [t \in Threads |-> None]
    /\ err = [t \in Threads |-> "none"]
    /\ calls = 0
    /\ job = [research |-> [citations |-> <<>>], outline |-> <<>>,
              sections |-> <<>>, content |-> <<>>,
              seo |-> Seo(Topic, <<>>),
              genKind |-> "none", batch |-> <<>>, editKind |-> "none"]
    /\ futures = <<>>
    /\ idx = 1
    /\ created = {}
    /\ shadow = [x \in {} |-> 0]
    /\ snap = [t \in Clients |-> EmptyDict]
    /\ op = [t \in Clients |-> "none"]
    /\ tag = [t \in Clients |-> "none"]
    /\ order = <<>>
    /\ own = [t \in Clients |-> None]
    /\ bs = NoStep

Init ==
    /\ InitAgent
    /\ ext = NoCall

\* ------------------------------------------------------- session store
\* update_session, entry: the lock is taken and `session_id not in _store`
\* is evaluated
UpdateEnter(t) ==
    /\ pc[t] = "upd_enter"
    /\ LockFree
    /\ lock' = t
    /\ pc' = [pc EXCEPT ![t] = IF arg[t].id \in DOMAIN store
                               THEN "upd_merge" ELSE "upd_create"]
    /\ UNCHANGED <<store, heap, arg, cont, ret, err, calls, job, futures,
                   idx, created, shadow, snap, op, tag, order, ext, own, bs>>

\* update_session: self._store[session_id] = {}
UpdateCreate(t) ==
    /\ pc[t] = "upd_create"
    /\ heap' = Put(heap, NewAddr, EmptyDict)
    /\ store' = Put(store, arg[t].id, NewAddr)
    /\ pc' = [pc EXCEPT ![t] = "upd_merge"]
    /\ tag' = Disturb(t, arg[t].id)
    /\ UNCHANGED <<lock, arg, cont, ret, err, calls, job, futures, idx,
                   created, shadow, snap, op, order, ext, own, bs>>

\* update_session: self._store[session_id].update(data), then the lock is
\* released and the call returns
UpdateMerge(t) ==
    /\ pc[t] = "upd_merge"
    /\ heap' = [heap EXCEPT ![store[arg[t].id]] = DictUpdate(@, arg[t].data)]
    /\ lock' = NoThread
    /\ pc' = [pc EXCEPT ![t] = cont[t]]
    /\ shadow' = Put(shadow, arg[t].id,
                     DictUpdate(IF arg[t].id \in DOMAIN shadow
                                THEN shadow[arg[t].id] ELSE EmptyDict,
                                arg[t].data))
    /\ tag' = Disturb(t, arg[t].id)
    /\ UNCHANGED <<store, arg, cont, ret, err, calls, job, futures, idx,
                   created, snap, op, order, ext, own, bs>>

\* a client may name the job's id once start_job has drawn it, and any other
\* id at any time
Known(id) == id \in OtherIds \/ id \in created

CanCall(t) == pc[t] = "idle" /\ calls < MaxCalls

\* get_session(id): under the lock, return self._store.get(id)
GetSession(t, id) ==
    /\ CanCall(t) /\ Known(id)
    /\ LockFree
    /\ ret' = [ret EXCEPT ![t] = StoreGet(id)]
    /\ snap' = [snap EXCEPT ![t] = IF StoreGet(id) = None THEN EmptyDict
                                   ELSE heap[StoreGet(id)]]
    /\ err' = [err EXCEPT ![t] = "none"]
    /\ arg' = [arg EXCEPT ![t] = [id |-> id, data |-> EmptyDict]]
    /\ op' = [op EXCEPT ![t] = "get_session"]
    /\ tag' = [tag EXCEPT ![t] = "none"]
    /\ calls' = calls + 1
    /\ UNCHANGED <<store, heap, lock, pc, cont, job, futures, idx, created,
                   shadow, order, ext, own, bs>>

\* a direct update_session(id, {field: value}) call by a client
CallUpdate(t, id) ==
    /\ CanCall(t) /\ Known(id)
    /\ arg' = [arg EXCEPT ![t] =
                  [id |-> id, data |-> [f \in {ClientField(t)} |-> t]]]
    /\ pc' = [pc EXCEPT ![t] = "upd_enter"]
    /\ cont' = [cont EXCEPT ![t] = "idle"]
    /\ err' = [err EXCEPT ![t] = "none"]
    /\ op' = [op EXCEPT ![t] = "update_session"]
    /\ tag' = [tag EXCEPT ![t] = "none"]
    /\ calls' = calls + 1
    /\ UNCHANGED <<store, heap, lock, ret, job, futures, idx, created,
                   shadow, snap, order, ext, own, bs>>

\* the dict a client builds and passes to create_session, and what the
\* client does to that dict after the call: it sets keys or deletes one
CreateData(t) == [status |-> "running", topic |-> t]
MutateData == [topic |-> "edited", extra |-> "x"]
DictDelete(r, f) == [g \in DOMAIN r \ {f} |-> r[g]]
CallerChanges(r) == {DictUpdate(r, MutateData), DictDelete(r, "status")}

\* the dict object itself is stored
SameObject(a) == a

\* data.copy(): a new dict object with the keys and values of the dict at a
CopyAddr(a) == a + 1

\* create_session(id, data): under the lock, self._store[id] = data.copy();
\* whatever was stored under id is dropped from the store
CreateSession(t, id) ==
    /\ CanCall(t) /\ Known(id)
    /\ LockFree
    /\ LET a == NewAddr IN
       /\ heap' = Put(Put(heap, a, CreateData(t)), CopyAddr(a), CreateData(t))
       /\ store' = Put(store, id, CopyAddr(a))
       /\ own' = [own EXCEPT ![t] = a]
    /\ arg' = [arg EXCEPT ![t] = [id |-> id, data |-> CreateData(t)]]
    /\ created' = created \cup {id}
    /\ shadow' = Put(shadow, id, CreateData(t))
    /\ err' = [err EXCEPT ![t] = "none"]
    /\ op' = [op EXCEPT ![t] = "create_session"]
    /\ tag' = [Disturb(t, id) EXCEPT ![t] = "none"]
    /\ calls' = calls + 1
    /\ UNCHANGED <<lock, pc, cont, ret, job, futures, idx, snap, order, ext,
                   bs>>

\* the caller changes the dict it passed to create_session
CallerMutate(t) ==
    /\ pc[t] = "idle"
    /\ own[t] # None
    /\ \E d \in CallerChanges(heap[own[t]]) :
          /\ d # heap[own[t]]
          /\ heap' = [heap EXCEPT ![own[t]] = d]
    /\ UNCHANGED <<store, lock, pc, arg, cont, ret, err, calls, job, futures,
                   idx, created, shadow, snap, op, tag, order, ext, own, bs>>

\* ------------------------------------------------------ pause / resume
\* pause_job(id): update_session(id, {"status": "paused"})
PauseJob(t, id) ==
    /\ CanCall(t) /\ Known(id)
    /\ arg' = [arg EXCEPT ![t] = [id |-> id, data |-> PauseData]]
    /\ pc' = [pc EXCEPT ![t] = "upd_enter"]
    /\ cont' = [cont EXCEPT ![t] = "idle"]
    /\ err' = [err EXCEPT ![t] = "none"]
    /\ op' = [op EXCEPT ![t] = "pause_job"]
    /\ tag' = [tag EXCEPT ![t] =
                  IF StatusOf(id) = "running" THEN "pause" ELSE "none"]
    /\ calls' = calls + 1
    /\ UNCHANGED <<store, heap, lock, ret, job, futures, idx, created,
                   shadow, snap, order, ext, own, bs>>

\* resume_job(id): sess = get_session(id)
ResumeJob(t, id) ==
    /\ CanCall(t) /\ Known(id)
    /\ LockFree
    /\ ret' = [ret EXCEPT ![t] = StoreGet(id)]
    /\ arg' = [arg EXCEPT ![t] = [id |-> id, data |-> ResumeData]]
    /\ pc' = [pc EXCEPT ![t] = "res_found"]
    /\ err' = [err EXCEPT ![t] = "none"]
    /\ op' = [op EXCEPT ![t] = "resume_job"]
    /\ tag' = [tag EXCEPT ![t] =
                  IF tag[t] = "pause" /\ arg[t].id = id /\ pc[t] = "idle"
                     THEN "pause_resume"
                  ELSE IF id \in DOMAIN store
                          /\ StatusOf(id) \in {"running", "completed"}
                     THEN "resume_np"
                  ELSE "none"]
    /\ calls' = calls + 1
    /\ UNCHANGED <<store, heap, lock, cont, job, futures, idx, created,
                   shadow, snap, order, ext, own, bs>>

\* resume_job: `if not sess: raise KeyError("job not found")`
ResumeFound(t) ==
    /\ pc[t] = "res_found"
    /\ IF Falsy(ret[t])
          THEN /\ err' = [err EXCEPT ![t] = "KeyError"]
               /\ ret' = [ret EXCEPT ![t] = None]
               /\ pc' = [pc EXCEPT ![t] = "idle"]
          ELSE /\ pc' = [pc EXCEPT ![t] = "res_status"]
               /\ UNCHANGED <<err, ret>>
    /\ UNCHANGED <<store, heap, lock, arg, cont, calls, job, futures, idx,
                   created, shadow, snap, op, tag, order, ext, own, bs>>

\* resume_job: `if sess.get("status") != "paused": return sess`, otherwise
\* go on to update_session(id, {"status": "running"})
ResumeStatus(t) ==
    /\ pc[t] = "res_status"
    /\ IF NotPaused(ret[t])
          THEN /\ pc' = [pc EXCEPT ![t] = "idle"]
               /\ UNCHANGED cont
          ELSE /\ pc' = [pc EXCEPT ![t] = "upd_enter"]
               /\ cont' = [cont EXCEPT ![t] = "idle"]
    /\ UNCHANGED <<store, heap, lock, arg, ret, err, calls, job, futures,
                   idx, created, shadow, snap, op, tag, order, ext, own, bs>>

\* ---------------------------------------------------------- start_job
RunnerVarsKept == <<ret, calls, snap, op, ext, own, bs>>

\* runner-side call of update_session(job_id, data), continuing at next
CallStage(data, next) ==
    /\ arg' = [arg EXCEPT ![Runner] = [id |-> JobId, data |-> data]]
    /\ cont' = [cont EXCEPT ![Runner] = next]
    /\ pc' = [pc EXCEPT ![Runner] = "upd_enter"]

\* start_job: job_id = uuid4(); create_session(job_id, {status, topic})
\* create_session stores data.copy() under the lock
StartJob ==
    /\ pc[Runner] = "idle"
    /\ LockFree
    /\ heap' = Put(heap, NewAddr, InitialFields)
    /\ store' = Put(store, JobId, NewAddr)
    /\ created' = created \cup {JobId}
    /\ shadow' = Put(shadow, JobId, InitialFields)
    /\ pc' = [pc EXCEPT ![Runner] = "research"]
    /\ tag' = Disturb(Runner, JobId)
    /\ UNCHANGED <<lock, arg, cont, err, job, futures, idx, order>>
    /\ UNCHANGED RunnerVarsKept

\* step 1: research = research_agent.run(...); update_session(research)
Research(results) ==
    /\ pc[Runner] = "research"
    /\ \E r \in results :
          /\ job' = [job EXCEPT !.research = r]
          /\ CallStage([research |-> r], "outline")
    /\ UNCHANGED <<store, heap, lock, err, futures, idx, created, shadow, tag,
                   order>>
    /\ UNCHANGED RunnerVarsKept

\* a collaborator call raises and start_job propagates the exception;
\* err[Runner] names the call the exception came out of
Raise(origin) ==
    /\ pc' = [pc EXCEPT ![Runner] = "raised"]
    /\ err' = [err EXCEPT ![Runner] = origin]
    /\ UNCHANGED <<arg, cont, job>>

\* step 2: outline = outline_agent.run(...); update_session(outline)
Outline(outlines) ==
    /\ pc[Runner] = "outline"
    /\ \/ /\ \E o \in outlines :
                /\ job' = [job EXCEPT !.outline = o]
                /\ CallStage([outline |-> o], "batch_gen")
          /\ UNCHANGED err
       \/ Raise("outline")
    /\ UNCHANGED <<store, heap, lock, futures, idx, created, shadow, tag,
                   order>>
    /\ UNCHANGED RunnerVarsKept

\* what the batch generation call can return as a JSON list
GenSection(e) == [heading |-> e.heading,
                  content |-> [text |-> "gen", of |-> e.heading,
                               edited |-> FALSE]]
GenFor(o) == [i \in 1..Len(o) |-> GenSection(o[i])]
GenLists(o) == {GenFor(o), <<>>, Append(GenFor(o), GenSection(OutlineEntry("h1")))}

EditSection(s) == [heading |-> s.heading, content |-> Edit(s.content)]
EditFor(secs) == [i \in 1..Len(secs) |-> EditSection(secs[i])]

\* what the batch edit call can return as a JSON list
EditLists(secs) == {EditFor(secs), <<>>}

\* outcomes of json.loads(raw) that are not a list: the text does not parse,
\* or it parses to another JSON value
NotAList == {"unparsable", "nonlist"}

\* JSON values other than a list that json.loads(edited_raw) can give: one
\* that start_job cannot iterate as sections (a non-empty object, a number,
\* a non-empty string, null), and an empty object or string
NonListValues == {"object", "empty_object"}

\* generate_sections_batch, first call: raw = llm.generate(prompt) and
\* json.loads(raw); a list goes on to the edit call, anything else to the
\* fallback path; llm.generate is outside the try block
BatchGen ==
    /\ pc[Runner] = "batch_gen"
    /\ \/ /\ \E s \in GenLists(job.outline) :
                job' = [job EXCEPT !.genKind = "list", !.batch = s]
          /\ pc' = [pc EXCEPT ![Runner] = "batch_edit"]
          /\ UNCHANGED <<arg, cont, err>>
       \/ /\ \E k \in NotAList : job' = [job EXCEPT !.genKind = k]
          /\ pc' = [pc EXCEPT ![Runner] = "fb_submit"]
          /\ UNCHANGED <<arg, cont, err>>
       \/ Raise("batch_gen")
    /\ UNCHANGED <<store, heap, lock, futures, idx, created, shadow, tag,
                   order>>
    /\ UNCHANGED RunnerVarsKept

\* generate_sections_batch, second call: edited_raw = llm.generate(...);
\* whatever json.loads(edited_raw) gives is returned, the unedited sections
\* if it raises; llm.generate is outside the try block
BatchEdit ==
    /\ pc[Runner] = "batch_edit"
    /\ \/ /\ \E e \in EditLists(job.batch) :
                job' = [job EXCEPT !.editKind = "list", !.sections = e]
          /\ pc' = [pc EXCEPT ![Runner] = "assemble"]
          /\ UNCHANGED <<arg, cont, err>>
       \/ /\ \E k \in NonListValues :
                job' = [job EXCEPT !.editKind = k, !.sections = <<>>]
          /\ pc' = [pc EXCEPT ![Runner] = "assemble"]
          /\ UNCHANGED <<arg, cont, err>>
       \/ /\ job' = [job EXCEPT !.editKind = "unparsable",
                                !.sections = job.batch]
          /\ pc' = [pc EXCEPT ![Runner] = "assemble"]
          /\ UNCHANGED <<arg, cont, err>>
       \/ Raise("batch_edit")
    /\ UNCHANGED <<store, heap, lock, futures, idx, created, shadow, tag,
                   order>>
    /\ UNCHANGED RunnerVarsKept

\* generate_sections_fallback: one _draft_and_edit task submitted per entry
FallbackSubmit ==
    /\ pc[Runner] = "fb_submit"
    /\ futures' = [i \in 1..Len(job.outline) |-> PendingFuture]
    /\ idx' = 1
    /\ order' = <<>>
    /\ job' = [job EXCEPT !.sections = <<>>]
    /\ pc' = [pc EXCEPT ![Runner] = "fb_collect"]
    /\ UNCHANGED <<store, heap, lock, arg, cont, err, created, shadow, tag>>
    /\ UNCHANGED RunnerVarsKept

\* a pool worker finishes task i: _draft_and_edit returns, or one of its two
\* collaborator calls raises
WorkerDone(i) ==
    /\ pc[Runner] = "fb_collect"
    /\ i \in 1..Len(futures)
    /\ futures[i].state = "pending"
    /\ \/ futures' = [futures EXCEPT ![i] =
             [state |-> "done",
              value |-> DraftAndEdit(job.outline[i].heading)]]
       \/ futures' = [futures EXCEPT ![i] =
             [state |-> "failed", value |-> NoSection]]
    /\ order' = Append(order, i)
    /\ UNCHANGED <<store, heap, lock, pc, arg, cont, err, job, idx, created,
                   shadow, tag>>
    /\ UNCHANGED RunnerVarsKept

\* generate_sections_fallback: `for f in futures: sections.append(f.result())`
\* f.result() blocks until the task is finished and re-raises its exception
FallbackCollect ==
    /\ pc[Runner] = "fb_collect"
    /\ idx <= Len(futures)
    /\ LET i == CollectIndex(idx, order) IN
       /\ futures[i].state # "pending"
       /\ IF futures[i].state = "done"
             THEN /\ job' = [job EXCEPT !.sections = Append(@, futures[i].value)]
                  /\ idx' = idx + 1
                  /\ UNCHANGED <<pc, err>>
             ELSE /\ pc' = [pc EXCEPT ![Runner] = "raised"]
                  /\ err' = [err EXCEPT ![Runner] = "task"]
                  /\ UNCHANGED <<job, idx>>
    /\ UNCHANGED <<store, heap, lock, arg, cont, futures, created, shadow,
                   tag, order>>
    /\ UNCHANGED RunnerVarsKept

\* generate_sections_fallback: `return sections`
FallbackReturn ==
    /\ pc[Runner] = "fb_collect"
    /\ idx > Len(futures)
    /\ pc' = [pc EXCEPT ![Runner] = "assemble"]
    /\ UNCHANGED <<store, heap, lock, arg, cont, err, job, futures, idx,
                   created, shadow, tag, order>>
    /\ UNCHANGED RunnerVarsKept

\* the value generate_sections_batch returned is a list
ReturnedList(j) == j.editKind \notin NonListValues

\* step 4: full_content = "\n\n".join(... for sec in sections); indexing
\* sec['heading'] raises TypeError when sections is a value that is not a
\* list of records; an empty object or string joins to the empty text
AssembleContent ==
    /\ pc[Runner] = "assemble"
    /\ IF job.editKind = "object"
          THEN Raise("assemble")
          ELSE /\ job' = [job EXCEPT !.content = Assemble(job.sections)]
               /\ pc' = [pc EXCEPT ![Runner] = "seo"]
               /\ UNCHANGED <<arg, cont, err>>
    /\ UNCHANGED <<store, heap, lock, futures, idx, created, shadow, tag,
                   order>>
    /\ UNCHANGED RunnerVarsKept

\* the result dict without the research aggregate
ResultWithoutResearch(j) ==
    [job_id |-> JobId, topic |-> Topic, outline |-> j.outline,
     sections |-> j.sections, content |-> j.content, seo |-> j.seo]

\* the result dict built by start_job
Result(j) == [job_id |-> JobId, topic |-> Topic, outline |-> j.outline,
              sections |-> j.sections, content |-> j.content,
              seo |-> j.seo, research |-> j.research]

\* the final write that leaves the status as it is
FinalKeepsStatus(j) == [result |-> Result(j)]

\* the fields of the final update_session call
FinalData(j) == [status |-> "completed", result |-> Result(j)]

\* step 5: seo = seo_agent.run(topic, full_content), then the final
\* update_session(job_id, {status: completed, result: result})
SeoStage ==
    /\ pc[Runner] = "seo"
    /\ \/ /\ job' = [job EXCEPT !.seo = Seo(Topic, job.content)]
          /\ CallStage(FinalData(job'), "done")
          /\ UNCHANGED err
       \/ Raise("seo")
    /\ UNCHANGED <<store, heap, lock, futures, idx, created, shadow, tag,
                   order>>
    /\ UNCHANGED RunnerVarsKept

\* ------------------------------------- _extract_json_array_from_text
\* A text is a sequence of tokens:
\*   "w"       a run of prose without brackets
\*   "_"       whitespace
\*   "a", "b"  the JSON text of one record {"heading": .., "content": ..}
\*   "[", "]"  the brackets of a JSON array (commas are not shown)
\*   "{", "}"  `{"sections":` and its closing brace
\* The argument may also be a value that is not a string.
RecordToks == {"a", "b"}
Tokens == {"w", "_", "[", "]", "{", "}"} \cup RecordToks
TokSeqs == UNION {[1..n -> Tokens] : n \in 0..MaxText}
Texts == {[isStr |-> TRUE, toks |-> t] : t \in TokSeqs}
            \cup {[isStr |-> FALSE, toks |-> <<>>]}

\* str.strip()
RECURSIVE StripLeft(_)
StripLeft(t) ==
    IF t # <<>> /\ Head(t) = "_" THEN StripLeft(Tail(t)) ELSE t
RECURSIVE StripRight(_)
StripRight(t) ==
    IF t # <<>> /\ t[Len(t)] = "_"
       THEN StripRight(SubSeq(t, 1, Len(t) - 1)) ELSE t
Strip(t) == StripRight(StripLeft(t))

\* json.loads ignores whitespace between the tokens of a JSON text
Squeeze(t) == SelectSeq(t, LAMBDA x : x # "_")

Inner(t) == SubSeq(t, 2, Len(t) - 1)

\* t is the text of one JSON value / of a run of JSON values
RECURSIVE IsValue(_), IsValueRun(_)
IsValue(t) ==
    \/ Len(t) = 1 /\ t[1] \in RecordToks
    \/ Len(t) >= 2 /\ t[1] = "[" /\ t[Len(t)] = "]" /\ IsValueRun(Inner(t))
    \/ Len(t) >= 3 /\ t[1] = "{" /\ t[Len(t)] = "}" /\ IsValue(Inner(t))
IsValueRun(t) ==
    \/ t = <<>>
    \/ \E k \in 1..Len(t) :
          IsValue(SubSeq(t, 1, k)) /\ IsValueRun(SubSeq(t, k + 1, Len(t)))

\* json.loads(t) succeeds and isinstance(parsed, list)
ParsesToList(t) ==
    LET q == Squeeze(t) IN Len(q) >= 2 /\ q[1] = "[" /\ IsValue(q)

\* json.loads(t) succeeds and gives a dict whose 'sections' is a list
ParsesToSectionsDict(t) ==
    LET q == Squeeze(t) IN
       Len(q) >= 3 /\ q[1] = "{" /\ IsValue(q) /\ ParsesToList(Inner(q))

\* outcomes of the call: a list (the texts of its elements, in order), None,
\* or an exception
OutList(elems) == [kind |-> "list", value |-> elems]
OutNone == [kind |-> "none", value |-> <<>>]
OutRaise == [kind |-> "raise", value |-> <<>>]

\* the elements of the list json.loads(t) gives
ListOf(t) == OutList(Inner(Squeeze(t)))

\* the module imports uuid, json, typing and ThreadPoolExecutor; `re` is not
\* among them, so the name `re` in re.search is unbound
ReImported == FALSE

\* text.index('[') and text.rindex(']')
FirstOpen(t) == CHOOSE i \in 1..Len(t) :
                   t[i] = "[" /\ \A j \in 1..(i - 1) : t[j] # "["
LastClose(t) == CHOOSE i \in 1..Len(t) :
                   t[i] = "]" /\ \A j \in (i + 1)..Len(t) : t[j] # "]"

\* last attempt: the text from the first '[' to the last ']'; a missing
\* bracket (ValueError) or a failing parse is swallowed by the except clause
Lenient(t) ==
    IF (\E i \in 1..Len(t) : t[i] = "[") /\ (\E i \in 1..Len(t) : t[i] = "]")
          /\ ParsesToList(SubSeq(t, FirstOpen(t), LastClose(t)))
       THEN ListOf(SubSeq(t, FirstOpen(t), LastClose(t)))
       ELSE OutNone

\* _extract_json_array_from_text(text).  The pattern of the re.search call
\* asks for a backslash after '[', which no text of the model has, so with
\* `re` bound that attempt would find no match and the last one would run.
Extract(text) ==
    IF ~text.isStr \/ text.toks = <<>>
       THEN OutNone
    ELSE LET t == Strip(text.toks) IN
       IF ParsesToList(t) THEN ListOf(t)
       ELSE IF ParsesToSectionsDict(t) THEN ListOf(Inner(Squeeze(t)))
       ELSE IF ~ReImported THEN OutRaise
       ELSE Lenient(t)

AgentVarsKept == <<store, heap, lock, pc, arg, cont, ret, err, calls, job,
                   futures, idx, created, shadow, snap, op, tag, order>>
AgentVars == <<AgentVarsKept, own, bs>>

\* the call runs to its return or to its exception
ExtractCall ==
    /\ ext.pc = "called"
    /\ ext' = [ext EXCEPT !.pc = "returned", !.out = Extract(ext.text)]
    /\ UNCHANGED AgentVars

\* ---------------------------------------------------------- Batch steps
\* _generate_all_sections_from_outline ("gen") and _edit_all_sections
\* ("edit") have the same shape: llm.complete, extraction, a second
\* llm.complete and extraction if the first gave None, RuntimeError if the
\* value is still None, then normalisation of the elements.
\*   bs.calls  number of llm.complete calls made so far
\*   bs.raw    output of the last call
\*   bs.outs   outcomes of the extractions made so far, in order
StepKinds == {"gen", "edit"}

\* what llm.complete can return
RawTexts ==
    {[isStr |-> TRUE, toks |-> t] :
        t \in UNION {[1..n -> Tokens] : n \in 0..MaxRaw}}
       \cup {[isStr |-> FALSE, toks |-> <<>>]}

\* the first element of a run of JSON values ends at token ElemEnd(v)
ElemEnd(v) ==
    CHOOSE k \in 1..Len(v) :
        IsValue(SubSeq(v, 1, k)) /\ \A j \in 1..(k - 1) : ~IsValue(SubSeq(v, 1, j))
Rest(v) == SubSeq(v, ElemEnd(v) + 1, Len(v))

\* every element of the list has a .get, that is, none is itself a list
RECURSIVE AllDicts(_)
AllDicts(v) == v = <<>> \/ (Head(v) # "[" /\ AllDicts(Rest(v)))

\* the normalisation loop: a record keeps its heading and content, any
\* other dict becomes the record "u" (heading 'Untitled', content '')
RECURSIVE Normalized(_)
Normalized(v) ==
    IF v = <<>> THEN <<>>
    ELSE <<IF Head(v) \in RecordToks THEN Head(v) ELSE "u">>
            \o Normalized(Rest(v))

\* the second call is made whatever the first extraction returned
RetryAlways(o) == TRUE

\* `if sections is None:` after the first extraction
NeedsRetry(o) == o = OutNone

\* the step is entered and makes its first llm.complete call, which returns
\* a text or raises
BatchStepCall(kind) ==
    /\ bs.pc = "off"
    /\ \/ \E x \in RawTexts :
             bs' = [bs EXCEPT !.kind = kind, !.calls = 1, !.raw = x,
                              !.pc = "extract1"]
       \/ bs' = [bs EXCEPT !.kind = kind, !.calls = 1, !.pc = "raised",
                           !.err = "llm"]
    /\ UNCHANGED <<ext, own>>
    /\ UNCHANGED AgentVarsKept

\* _extract_json_array_from_text(raw) and the first `is None` test; an
\* exception of the extraction leaves the step
BatchStepExtract ==
    /\ bs.pc = "extract1"
    /\ LET o == Extract(bs.raw) IN
       bs' = [bs EXCEPT !.outs = Append(@, o),
                        !.pc = IF o = OutRaise THEN "raised"
                               ELSE IF NeedsRetry(o) THEN "call2"
                               ELSE "normalize",
                        !.err = IF o = OutRaise THEN "NameError" ELSE @]
    /\ UNCHANGED <<ext, own>>
    /\ UNCHANGED AgentVarsKept

\* the second llm.complete call, with the tighter instruction
BatchStepRetry ==
    /\ bs.pc = "call2"
    /\ \/ \E x \in RawTexts :
             bs' = [bs EXCEPT !.calls = @ + 1, !.raw = x, !.pc = "extract2"]
       \/ bs' = [bs EXCEPT !.calls = @ + 1, !.pc = "raised", !.err = "llm"]
    /\ UNCHANGED <<ext, own>>
    /\ UNCHANGED AgentVarsKept

\* the second extraction and the second `is None` test, which raises
\* RuntimeError
BatchStepExtractAgain ==
    /\ bs.pc = "extract2"
    /\ LET o == Extract(bs.raw) IN
       bs' = [bs EXCEPT !.outs = Append(@, o),
                        !.pc = IF o.kind = "list" THEN "normalize"
                               ELSE "raised",
                        !.err = IF o = OutRaise THEN "NameError"
                                ELSE IF o = OutNone THEN "RuntimeError"
                                ELSE @]
    /\ UNCHANGED <<ext, own>>
    /\ UNCHANGED AgentVarsKept

\* the normalisation loop and `return normalized`; s.get raises
\* AttributeError on an element that is a list
BatchStepReturn ==
    /\ bs.pc = "normalize"
    /\ LET v == bs.outs[Len(bs.outs)].value IN
       IF AllDicts(v)
          THEN bs' = [bs EXCEPT !.pc = "returned", !.out = Normalized(v)]
          ELSE bs' = [bs EXCEPT !.pc = "raised", !.err = "AttributeError"]
    /\ UNCHANGED <<ext, own>>
    /\ UNCHANGED AgentVarsKept

\* ----------------------------------------------------------------- Next
\* the section pipeline, common to the specifications that run start_job
Pipeline ==
    \/ BatchGen
    \/ BatchEdit
    \/ FallbackSubmit
    \/ \E i \in 1..MaxOutline : WorkerDone(i)
    \/ FallbackCollect
    \/ FallbackReturn
    \/ AssembleContent
    \/ SeoStage

\* Spec: one start_job run, with client threads calling pause_job and
\* resume_job on the job's id and on an id no job has
LifeIds == {JobId, "u1"}
LifeOutlines == {<<>>, <<OutlineEntry("h1")>>}
LifeResearch == {[citations |-> <<>>]}

Next ==
    \/ \E t \in Threads : UpdateEnter(t)
    \/ \E t \in Threads : UpdateCreate(t)
    \/ \E t \in Threads : UpdateMerge(t)
    \/ \E t \in Clients, id \in LifeIds : PauseJob(t, id)
    \/ \E t \in Clients, id \in LifeIds : ResumeJob(t, id)
    \/ \E t \in Clients : ResumeFound(t)
    \/ \E t \in Clients : ResumeStatus(t)
    \/ StartJob
    \/ Research(LifeResearch)
    \/ Outline(LifeOutlines)
    \/ Pipeline

Spec == Init /\ [][Next]_vars

\* SpecStore: client threads only, every call of the public surface on ids
\* that exist only once update_session has made them
NextStore ==
    \/ \E t \in Clients : UpdateEnter(t)
    \/ \E t \in Clients : UpdateCreate(t)
    \/ \E t \in Clients : UpdateMerge(t)
    \/ \E t \in Clients, id \in OtherIds : GetSession(t, id)
    \/ \E t \in Clients, id \in OtherIds : CallUpdate(t, id)
    \/ \E t \in Clients, id \in OtherIds : PauseJob(t, id)
    \/ \E t \in Clients, id \in OtherIds : ResumeJob(t, id)
    \/ \E t \in Clients : ResumeFound(t)
    \/ \E t \in Clients : ResumeStatus(t)

SpecStore == Init /\ [][NextStore]_vars

\* SpecCreate: client threads calling create_session and update_session on
\* the same ids, and changing the dicts they passed to create_session
NextCreate ==
    \/ \E t \in Clients : UpdateEnter(t)
    \/ \E t \in Clients : UpdateCreate(t)
    \/ \E t \in Clients : UpdateMerge(t)
    \/ \E t \in Clients, id \in OtherIds : CallUpdate(t, id)
    \/ \E t \in Clients, id \in OtherIds : CreateSession(t, id)
    \/ \E t \in Clients : CallerMutate(t)

SpecCreate == Init /\ [][NextCreate]_vars

\* SpecPipeline: one start_job run on its own, over every outline and every
\* outcome of the collaborators
NextPipeline ==
    \/ UpdateEnter(Runner)
    \/ UpdateMerge(Runner)
    \/ StartJob
    \/ Research(ResearchResults)
    \/ Outline(Outlines)
    \/ Pipeline

SpecPipeline == Init /\ [][NextPipeline]_vars

\* SpecLive: one start_job run over every outline, with client threads
\* calling pause_job on the job while it runs.  The runner thread and the
\* pool workers keep being scheduled, and a thread inside update_session
\* leaves it.
RunnerStep ==
    \/ UpdateEnter(Runner)
    \/ UpdateMerge(Runner)
    \/ StartJob
    \/ Research(LifeResearch)
    \/ Outline(Outlines)
    \/ Pipeline

ClientInLock == \E t \in Clients : UpdateMerge(t)

NextLive ==
    \/ RunnerStep
    \/ \E t \in Clients : PauseJob(t, JobId)
    \/ \E t \in Clients : UpdateEnter(t)
    \/ ClientInLock

SpecLive ==
    Init /\ [][NextLive]_vars /\ WF_vars(RunnerStep) /\ WF_vars(ClientInLock)

\* SpecStep: one call of _generate_all_sections_from_outline or of
\* _edit_all_sections, over every output of at most MaxRaw tokens
NextStep ==
    \/ \E kind \in StepKinds : BatchStepCall(kind)
    \/ BatchStepExtract
    \/ BatchStepRetry
    \/ BatchStepExtractAgain
    \/ BatchStepReturn

SpecStep == Init /\ [][NextStep]_vars

\* SpecExtract: one call of _extract_json_array_from_text on every text of
\* at most MaxText tokens and on a non-string argument
InitExtract ==
    /\ InitAgent
    /\ ext \in {[text |-> x, pc |-> "called", out |-> OutNone] : x \in Texts}

NextExtract == ExtractCall

SpecExtract == InitExtract /\ [][NextExtract]_vars

\* =================================================================
\* Properties
\* =================================================================

LegalTransitions == {<<"running", "paused">>, <<"paused", "running">>,
                     <<"running", "completed">>}

\* C1: every change of a job's stored status is running->paused,
\* paused->running or running->completed; pause_job on a job that is not
\* running leaves the status alone, and a paused job is not completed
\* without a resume_job in between.
C1_OnlyLegalTransitions ==
    [][\A id \in SessionIds :
          (StatusOf(id) # "absent" /\ StatusOf(id)' # StatusOf(id))
             => <<StatusOf(id), StatusOf(id)'>> \in LegalTransitions
      ]_vars

\* C2: a stored job record that has a `result` field has status completed.
C2_ResultImpliesCompleted ==
    \A id \in DOMAIN store :
        "result" \in DOMAIN Rec(id) => GetStatus(Rec(id)) = "completed"

\* C3: an id never passed to create_session is not in the store (so
\* get_session returns None and list_sessions omits it), and a resume_job
\* call on it raises the job-not-found error.
C3_UnknownIdNotFound ==
    \A id \in SessionIds \ created :
        /\ id \notin DOMAIN store
        /\ \A t \in Clients :
              (op[t] = "resume_job" /\ arg[t].id = id /\ pc[t] = "idle")
                 => err[t] = "KeyError"

\* C4: pause_job on a running job followed by resume_job, with no other
\* write to that job in between, leaves the stored status running, and the
\* record resume_job returns has status running.
C4_PauseThenResume ==
    \A t \in Clients :
        (tag[t] = "pause_resume" /\ pc[t] = "idle")
           => /\ err[t] = "none"
              /\ StatusOf(arg[t].id) = "running"
              /\ ret[t] # None
              /\ GetStatus(heap[ret[t]]) = "running"

C4_Witness ==
    \E t \in Clients :
        /\ tag[t] = "pause_resume" /\ pc[t] = "idle"
        /\ arg[t].id = JobId /\ pc[Runner] \notin {"idle", "done", "raised"}

\* C5: resume_job on an existing job whose status is running or completed
\* changes neither the store nor any record, raises nothing and returns the
\* job's current record.
C5_ResumeNotPausedIsNoOp ==
    [][\A t \in Clients :
          (tag'[t] = "resume_np" /\ pc'[t] # pc[t])
             => /\ store' = store
                /\ heap' = heap
                /\ (pc'[t] = "idle"
                      => err'[t] = "none" /\ ret'[t] = store[arg'[t].id])
      ]_vars

C5_Witness ==
    \E t \in Clients :
        /\ tag[t] = "resume_np" /\ pc[t] = "idle" /\ op[t] = "resume_job"
        /\ StatusOf(arg[t].id) = "completed"

\* C6: when two threads have each made an update_session call on the same
\* id, each setting its own field, the record holds both values; more
\* generally every record equals the result of applying the calls on its id
\* one after the other, so no field written earlier is lost.
C6_NoLostUpdate ==
    /\ \A id \in DOMAIN shadow : id \in DOMAIN store /\ Rec(id) = shadow[id]
    /\ \A id \in SessionIds :
          (\A t \in Clients : op[t] = "update_session" /\ pc[t] = "idle"
                              /\ arg[t].id = id)
             => /\ id \in DOMAIN store
                /\ \A t \in Clients :
                      /\ ClientField(t) \in DOMAIN Rec(id)
                      /\ Rec(id)[ClientField(t)] = t

C6_Witness ==
    \E id \in SessionIds :
        /\ \A t \in Clients : op[t] = "update_session" /\ pc[t] = "idle"
                              /\ arg[t].id = id
        /\ id \in DOMAIN store
        /\ DOMAIN Rec(id) = {"a", "b", "status"}

\* C7: the value get_session returned for a known id stays equal to the
\* record as it was at the call, whatever is written to the job later.
C7_GetReturnsSnapshot ==
    \A t \in Clients :
        (op[t] = "get_session" /\ ret[t] # None) => heap[ret[t]] = snap[t]

\* C8: each stage's output is in the job's stored record before the next
\* stage is invoked: research before the outline collaborator runs, outline
\* before the section pipeline runs, sections before the SEO collaborator
\* runs, and seo before the status is completed.
C8_StageWritesBeforeNextStage ==
    JobId \in DOMAIN store =>
        /\ pc[Runner] = "outline" => "research" \in DOMAIN Rec(JobId)
        /\ pc[Runner] \in {"batch_gen", "batch_edit", "fb_submit", "fb_collect"}
              => "outline" \in DOMAIN Rec(JobId)
        /\ pc[Runner] = "seo" => "sections" \in DOMAIN Rec(JobId)
        /\ StatusOf(JobId) = "completed" => "seo" \in DOMAIN Rec(JobId)

\* C9: during a job's run, whatever pause_job and resume_job calls are
\* interleaved, the record stays in the store, its set of fields only grows
\* and every field other than status keeps the value first written.
C9_FieldsOnlyGrow ==
    [][(JobId \in DOMAIN store)
          => (/\ JobId \in DOMAIN store'
              /\ (DOMAIN Rec(JobId)) \subseteq (DOMAIN (Rec(JobId)'))
              /\ \A f \in (DOMAIN Rec(JobId)) \ {"status"} :
                     (Rec(JobId)')[f] = Rec(JobId)[f])]_vars

C9_Witness ==
    /\ pc[Runner] = "done"
    /\ StatusOf(JobId) = "running"
    /\ StageFields \cap DOMAIN Rec(JobId) = {"research", "outline", "result"}

\* C10: when generate_sections_fallback returns, it returns one section per
\* outline entry and section i carries the heading of entry i, whatever the
\* order in which the worker tasks finished.
C10_FallbackKeepsOutlineOrder ==
    (pc[Runner] = "fb_collect" /\ idx > Len(futures))
       => /\ Len(job.sections) = Len(job.outline)
          /\ \A i \in 1..Len(job.outline) :
                job.sections[i].heading = job.outline[i].heading

C10_Witness ==
    /\ pc[Runner] = "fb_collect" /\ idx > Len(futures)
    /\ Len(job.outline) = 2
    /\ job.outline[1].heading # job.outline[2].heading
    /\ order = <<2, 1>>

\* C11: in the fallback path a task that raises does not abort the others
\* nor the job: generate_sections_fallback does not raise.
C11_TaskFailureIsContained ==
    (\E i \in 1..Len(futures) : futures[i].state = "failed")
       => pc[Runner] # "raised"

\* C12: when the batch generation output does not parse to a list,
\* generate_sections_batch hands over to the fallback path and raises
\* nothing to start_job.
C12_BadBatchOutputRaisesNothing ==
    job.genKind \in NotAList
       => /\ pc[Runner] # "batch_edit"
          /\ err[Runner] \notin {"batch_gen", "batch_edit", "task"}

\* C13: a batch generation output that parses to an empty list is treated
\* as a failure of the batch path, so the pipeline does not return an empty
\* section list for a non-empty outline.
C13_EmptyBatchListFallsBack ==
    /\ pc[Runner] = "batch_edit" => job.batch # <<>>
    /\ (pc[Runner] = "assemble" /\ ReturnedList(job) /\ job.outline # <<>>)
          => job.sections # <<>>

\* C14: an exception raised by the batch generation call or by the batch
\* edit call is recovered inside the section pipeline and never reaches the
\* caller of start_job.
C14_BatchCallFailureRecovered ==
    err[Runner] \notin {"batch_gen", "batch_edit"}

\* C15: when the batch edit output is not a list of section records, the
\* generated sections are returned unchanged; the value
\* generate_sections_batch returns is always a list.
C15_UneditedOnBadEdit ==
    (pc[Runner] = "assemble" /\ job.genKind = "list")
       => /\ ReturnedList(job)
          /\ job.editKind # "list" => job.sections = job.batch

\* C16: the section pipeline returns at most as many sections as the
\* outline has entries, and exactly as many when the fallback path produced
\* them.
C16_LengthBoundedByOutline ==
    (pc[Runner] = "assemble" /\ ReturnedList(job))
       => /\ Len(job.sections) <= Len(job.outline)
          /\ job.genKind \in NotAList
                => Len(job.sections) = Len(job.outline)

\* C17: _extract_json_array_from_text never raises: it returns a list or
\* None, and None for an empty text or an argument that is not a string.
C17_ExtractNeverRaises ==
    ext.pc = "returned"
       => /\ ext.out.kind \in {"list", "none"}
          /\ (~ext.text.isStr \/ ext.text.toks = <<>>) => ext.out = OutNone

IsProse(t) == \A i \in 1..Len(t) : t[i] \in {"w", "_"}
IsRecordArray(t) ==
    /\ Len(t) >= 2 /\ t[1] = "[" /\ t[Len(t)] = "]"
    /\ \A i \in 2..(Len(t) - 1) : t[i] \in RecordToks

\* C18: for prose, then one well-formed JSON array of records, then prose,
\* the call returns that array's records in their order; for a JSON object
\* with a `sections` list it returns that list.
C18_ExtractFindsEmbeddedArray ==
    ext.pc = "returned" =>
       LET t == ext.text.toks IN
       /\ \A i \in 1..Len(t), j \in 1..Len(t) :
             (/\ i < j
              /\ IsProse(SubSeq(t, 1, i - 1))
              /\ IsRecordArray(SubSeq(t, i, j))
              /\ IsProse(SubSeq(t, j + 1, Len(t))))
                 => ext.out = OutList(SubSeq(t, i + 1, j - 1))
       /\ (Len(t) >= 3 /\ t[1] = "{" /\ t[Len(t)] = "}"
              /\ IsRecordArray(Inner(t)))
             => ext.out = OutList(Inner(Inner(t)))

\* the stored record is completed and its result has one section per
\* outline entry, under the entry's heading
CompletedWithAllSections ==
    /\ StatusOf(JobId) = "completed"
    /\ "result" \in DOMAIN Rec(JobId)
    /\ Len(Rec(JobId).result.sections) = Len(job.outline)
    /\ \A i \in 1..Len(job.outline) :
          Rec(JobId).result.sections[i].heading = job.outline[i].heading

\* C19: a start_job run whose batch generation output is malformed, and in
\* which no later collaborator call raises, reaches status completed with
\* one section per outline entry in result.sections, whatever pause_job
\* calls are made while it runs.
C19_FallbackRunCompletes ==
    (pc[Runner] = "fb_submit")
       ~> (CompletedWithAllSections \/ pc[Runner] = "raised")

C19_Witness ==
    /\ pc[Runner] = "done" /\ job.genKind \in NotAList
    /\ Len(job.outline) = 2
    /\ CompletedWithAllSections
    /\ \E t \in Clients : op[t] = "pause_job" /\ pc[t] = "idle"

\* C20: a thread about to enter update_session for one id is never kept
\* waiting by a thread that is inside update_session for another id.
C20_NoCrossJobBlocking ==
    \A t \in Clients, u \in Clients :
        ~(/\ t # u
          /\ pc[t] = "upd_enter"
          /\ lock = u
          /\ arg[u].id # arg[t].id)

\* C21: create_session on an id that is already present replaces the whole
\* record by a copy of the given fields (no field written earlier is left),
\* the stored dict is another object than the one passed in, and a later
\* change the caller makes to the dict it passed leaves every stored record
\* as it was.
C21_CreateReplacesByCopy ==
    [][(/\ \A t \in Clients, id \in SessionIds :
             (own'[t] # own[t] /\ arg'[t].id = id)
                => (/\ id \in DOMAIN store'
                    /\ (Rec(id))' = arg'[t].data
                    /\ store'[id] # own'[t])
        /\ \A t \in Clients :
             (own[t] # None /\ own'[t] = own[t]
                 /\ heap'[own[t]] # heap[own[t]])
                => \A id \in DOMAIN store :
                      /\ store'[id] = store[id]
                      /\ heap'[store[id]] = heap[store[id]])
      ]_vars

C21_Witness ==
    \E t \in Clients, u \in Clients :
        /\ t # u
        /\ op[t] = "create_session" /\ own[t] # None
        /\ op[u] = "update_session" /\ pc[u] = "idle"
        /\ arg[u].id = arg[t].id
        /\ ClientField(u) \notin DOMAIN Rec(arg[t].id)
        /\ Rec(arg[t].id) = CreateData(t)
        /\ heap[own[t]] = DictDelete(DictUpdate(CreateData(t), MutateData),
                                     "status")

\* C22: a batch step calls llm.complete at most twice; the second call is
\* made exactly when the extraction of the first output returned None; and
\* when both extractions returned None the step raises RuntimeError and
\* returns no list.
C22_AtMostOneRetry ==
    /\ bs.calls <= 2
    /\ bs.calls = 2 => (Len(bs.outs) >= 1 /\ bs.outs[1] = OutNone)
    /\ (Len(bs.outs) >= 1 /\ bs.outs[1] = OutNone)
          => (bs.calls = 2 \/ bs.pc = "call2")
    /\ (Len(bs.outs) = 2 /\ bs.outs[2] = OutNone)
          => (bs.pc = "raised" /\ bs.err = "RuntimeError")
    /\ bs.pc = "returned" => bs.outs[Len(bs.outs)].kind = "list"

C22_Witness ==
    /\ bs.kind = "edit" /\ bs.calls = 2
    /\ bs.outs = <<OutNone, OutNone>>
    /\ bs.pc = "raised" /\ bs.err = "RuntimeError"

\* no step takes a status from completed to running
CompletedNotResumed ==
    \A id \in SessionIds :
        StatusOf(id) = "completed" => StatusOf(id)' # "running"

\* C23: whatever runs concurrently with resume_job (the final write of
\* start_job, pause_job), its write of status running never lands on a job
\* whose stored status is completed: no step turns completed into running.
C23_ResumeOnlyFromPaused ==
    [][CompletedNotResumed]_vars

ResultFields == {"job_id", "topic", "outline", "sections", "content", "seo",
                 "research"}

\* C24: a record created by start_job with status completed has a result
\* holding job_id, topic, outline, sections, content, seo and research as
\* the stages produced them; while start_job is running, or after it was
\* aborted by an exception, the record has no result and is not completed.
C24_CompletedHasResult ==
    JobId \in DOMAIN store =>
        /\ StatusOf(JobId) = "completed" =>
              /\ "result" \in DOMAIN Rec(JobId)
              /\ DOMAIN Rec(JobId).result = ResultFields
              /\ Rec(JobId).result.job_id = JobId
              /\ Rec(JobId).result.topic = Topic
              /\ Rec(JobId).result.outline = job.outline
              /\ Rec(JobId).result.sections = job.sections
              /\ Rec(JobId).result.content = job.content
              /\ Rec(JobId).result.seo = job.seo
              /\ Rec(JobId).result.research = job.research
        /\ pc[Runner] \notin {"idle", "done"} =>
              /\ "result" \notin DOMAIN Rec(JobId)
              /\ StatusOf(JobId) # "completed"

C24_Witness ==
    /\ pc[Runner] = "done"
    /\ StatusOf(JobId) = "completed"
    /\ Len(Rec(JobId).result.sections) = 1
    /\ Rec(JobId).result.content # <<>>
    /\ \E t \in Clients : op[t] = "resume_job" /\ arg[t].id = JobId

====
